---- MODULE Spec2Model ----
(***************************************************************************)
(* Kanban to-do board (OleksandrPolonskyi/Todo).                           *)
(*                                                                         *)
(* Two variants of the KanbanBoard component share the in-memory board     *)
(* operations and differ in persistence:                                   *)
(*   "local"  : src/src/components/KanbanBoard.tsx (localStorage snapshot) *)
(*   "remote" : src/unnamed/part_000 (Supabase table + realtime refetch)   *)
(*                                                                         *)
(* Optional JavaScript values (an omitted argument, null) are modelled as  *)
(* sequences of length 0 or 1: <<>> is undefined/null, <<v>> is v.         *)
(* Strings the code inspects (titles) are sequences of characters.         *)
(***************************************************************************)
EXTENDS Integers, Sequences, FiniteSets, Bags, TLC

VARIABLES
    variant,     \* which of the two component files is deployed
    phase,       \* lifecycle position of the component
    board,       \* React state `board` : Record<ColumnId, Task[]>
    now,         \* last value returned by Date.now()
    nextId,      \* ids handed out by uid() so far (uid() is assumed fresh)
    storage,     \* local variant: localStorage[STORAGE_KEY], <<>> when absent
    pendingData, \* local variant: setData(...) queued by the load effect
    rawRead,     \* local variant: `raw`, what the load effect read, <<>> for null
    store,       \* remote variant: rows of the table "tasks"
    writes,      \* remote variant: insert/update/delete requests in flight
    subscribed,  \* remote variant: the realtime channel has joined
    notifs,      \* remote variant: change events on their way to the client
    fetches,     \* remote variant: fetchTasks() calls in flight
    gestures,    \* user operations handled so far
    failedMove,  \* remote variant: the move write lost since the last applied refetch
    lost,        \* remote variant: a write, a refetch or a change event was lost
    resetAt,     \* <<uid() position>> when the page was reloaded by a reset
    last         \* the operation that produced this state

vars == <<variant, phase, board, now, nextId, gestures, storage, pendingData, rawRead,
          store, writes, subscribed, notifs, fetches, failedMove, lost, resetAt, last>>

localVars  == <<storage, pendingData, rawRead>>
remoteVars == <<store, writes, subscribed, notifs, fetches, failedMove, lost>>

----------------------------------------------------------------------------
(* Bounds of the model *)

MaxAdds    == 1   \* addTask calls that create a task
MaxClock   == 2   \* Date.now() ranges over SessionStart..MaxClock
MaxIndex   == 3   \* explicit move indexes range over -1..MaxIndex
MaxWrites  == 1   \* store writes in flight at once
MaxFetches == 2   \* fetchTasks() calls in flight at once
MaxNotifs  == 1   \* change events in flight at once
MaxGestures == 2  \* user operations in one session
MaxOps     == 1   \* SpecOps: board operations applied in a row

----------------------------------------------------------------------------
(* Data model *)

Stages == {"todo", "in_progress", "done"}

\* Date.now() when the page is opened; earlier sessions ran before it
SessionStart == 1

\* payload.from values a drag payload can carry: the stages and a stale name
FromValues == Stages \cup {"archive"}

Variants == {"local", "remote"}

initialDataRemote == [s \in Stages |-> <<>>]

Task(id, title, createdAt) == [id |-> id, title |-> title, createdAt |-> createdAt]

\* Titles a user can type or paste into the add form / prompt
RawTitles == { <<>>, <<" ", "\t">>, <<" ", "a", " ", "b", "\t">> }

\* Optional index argument of moveTask
Indexes == {<<>>} \cup { <<n>> : n \in -1..MaxIndex }

Min(a, b) == IF a < b THEN a ELSE b
Max(a, b) == IF a > b THEN a ELSE b

RECURSIVE SumLen(_, _)
SumLen(b, S) ==
    IF S = {} THEN 0
    ELSE LET s == CHOOSE x \in S : TRUE IN Len(b[s]) + SumLen(b, S \ {s})

\* number of tasks across the three stages
Total(b) == SumLen(b, Stages)

IdsOf(list) == { list[k].id : k \in 1..Len(list) }

AllIds(b) == UNION { IdsOf(b[s]) : s \in Stages }

\* no id twice in one stage, nor in two stages
NoDuplicateIds(b) ==
    /\ \A s \in Stages : \A j, k \in 1..Len(b[s]) : b[s][j].id = b[s][k].id => j = k
    /\ \A s, t \in Stages : s # t => IdsOf(b[s]) \cap IdsOf(b[t]) = {}

----------------------------------------------------------------------------
(* String.prototype.trim *)

IsWhiteSpace(c) == c \in {" ", "\t"}

RECURSIVE TrimStart(_)
TrimStart(s) ==
    IF s = <<>> THEN s
    ELSE IF IsWhiteSpace(Head(s)) THEN TrimStart(Tail(s)) ELSE s

RECURSIVE TrimEnd(_)
TrimEnd(s) ==
    IF s = <<>> THEN s
    ELSE IF IsWhiteSpace(s[Len(s)]) THEN TrimEnd(SubSeq(s, 1, Len(s) - 1)) ELSE s

\* the title is tested and stored untrimmed
Trim_none(s) == s

Trim(s) == TrimEnd(TrimStart(s))

----------------------------------------------------------------------------
(* Array helpers, 0-based positions as in the code *)

\* Array.prototype.findIndex(t => t.id === id): first position or -1
FindIndex(list, id) ==
    IF id \in IdsOf(list)
    THEN (CHOOSE k \in 1..Len(list) :
              /\ list[k].id = id
              /\ \A j \in 1..(k - 1) : list[j].id # id) - 1
    ELSE -1

\* list.splice(i, 1): the list without position i
SpliceOut(list, i) == SubSeq(list, 1, i) \o SubSeq(list, i + 2, Len(list))

\* list.splice(at, 0, task): the list with task inserted at position at
SpliceIn(list, at, task) == SubSeq(list, 1, at) \o <<task>> \o SubSeq(list, at + 1, Len(list))

----------------------------------------------------------------------------
(* The setBoard updaters of the three board operations *)

\* [...prev[col], task]: the new task is put last
addTaskUpdater_appends(prev, col, task) == [prev EXCEPT ![col] = prev[col] \o <<task>>]

addTaskUpdater(prev, col, task) == [prev EXCEPT ![col] = <<task>> \o prev[col]]

\* filter((t) => t.id === id): the predicate is inverted
removeTaskUpdater_inverted(prev, col, id) ==
    [prev EXCEPT ![col] = SelectSeq(prev[col], LAMBDA t : t.id = id)]

removeTaskUpdater(prev, col, id) ==
    [prev EXCEPT ![col] = SelectSeq(prev[col], LAMBDA t : t.id # id)]

\* [from]: prev[from]: the task is inserted in the target and left in the source
moveTaskUpdater_keepsSource(prev, from, to, id, index) ==
    LET i == FindIndex(prev[from], id) IN
    IF i = -1 THEN prev
    ELSE
      LET task     == prev[from][i + 1]
          target   == IF from = to THEN SpliceOut(prev[from], i) ELSE prev[to]
          insertAt == IF Len(index) = 1
                      THEN Max(0, Min(index[1], Len(target)))
                      ELSE Len(target)
      IN [s \in Stages |->
             IF s = to THEN SpliceIn(target, insertAt, task) ELSE prev[s]]

\* the target.splice(insertAt, 0, task) line is missing
moveTaskUpdater_dropsTask(prev, from, to, id, index) ==
    LET i == FindIndex(prev[from], id) IN
    IF i = -1 THEN prev
    ELSE [s \in Stages |-> IF s = from THEN SpliceOut(prev[from], i) ELSE prev[s]]

\* the `if (i === -1) return prev` line is missing: splice(-1, 1) takes the
\* last task of the source
moveTaskUpdater_noGuard(prev, from, to, id, index) ==
    LET found == FindIndex(prev[from], id)
        i     == IF found = -1 THEN Len(prev[from]) - 1 ELSE found
    IN
    IF i = -1 THEN prev
    ELSE
      LET task     == prev[from][i + 1]
          source   == SpliceOut(prev[from], i)
          target   == IF from = to THEN source ELSE prev[to]
          insertAt == IF Len(index) = 1
                      THEN Max(0, Min(index[1], Len(target)))
                      ELSE Len(target)
      IN [s \in Stages |->
             IF s = to THEN SpliceIn(target, insertAt, task)
             ELSE IF s = from THEN source
             ELSE prev[s]]

\* target = [...prev[to]] also when from === to: two copies of the same list
moveTaskUpdater_separateCopies(prev, from, to, id, index) ==
    LET i == FindIndex(prev[from], id) IN
    IF i = -1 THEN prev
    ELSE
      LET task     == prev[from][i + 1]
          source   == SpliceOut(prev[from], i)
          target   == prev[to]
          insertAt == IF Len(index) = 1
                      THEN Max(0, Min(index[1], Len(target)))
                      ELSE Len(target)
      IN [s \in Stages |->
             IF s = to THEN SpliceIn(target, insertAt, task)
             ELSE IF s = from THEN source
             ELSE prev[s]]

\* an omitted index inserts at 0 instead of target.length
moveTaskUpdater_prepends(prev, from, to, id, index) ==
    LET i == FindIndex(prev[from], id) IN
    IF i = -1 THEN prev
    ELSE
      LET task     == prev[from][i + 1]
          source   == SpliceOut(prev[from], i)
          target   == IF from = to THEN source ELSE prev[to]
          insertAt == IF Len(index) = 1
                      THEN Max(0, Min(index[1], Len(target)))
                      ELSE 0
      IN [s \in Stages |->
             IF s = to THEN SpliceIn(target, insertAt, task)
             ELSE IF s = from THEN source
             ELSE prev[s]]

moveTaskUpdater(prev, from, to, id, index) ==
    LET i == FindIndex(prev[from], id) IN
    IF i = -1 THEN prev
    ELSE
      LET task     == prev[from][i + 1]
          source   == SpliceOut(prev[from], i)
          \* from === to: target is the same array as source, already spliced
          target   == IF from = to THEN source ELSE prev[to]
          insertAt == IF Len(index) = 1
                      THEN Max(0, Min(index[1], Len(target)))
                      ELSE Len(target)
          target2  == SpliceIn(target, insertAt, task)
      IN [s \in Stages |->
             IF s = to THEN target2
             ELSE IF s = from THEN source
             ELSE prev[s]]

----------------------------------------------------------------------------
(* Local variant: the snapshot under STORAGE_KEY *)

\* JSON.stringify(data): one array per stage, one [id, title, createdAt] per task
EncodeTasks(list) == [k \in 1..Len(list) |-> <<list[k].id, list[k].title, list[k].createdAt>>]

JSONstringify(b) ==
    <<"{", EncodeTasks(b["todo"]), EncodeTasks(b["in_progress"]), EncodeTasks(b["done"]), "}">>

\* a stored text JSON.parse throws on
CorruptText == <<"{">>

\* JSON.parse(raw) does not throw
Parses(raw) == Len(raw) = 5 /\ raw[1] = "{" /\ raw[5] = "}"

DecodeTasks(enc) == [k \in 1..Len(enc) |-> Task(enc[k][1], enc[k][2], enc[k][3])]

JSONparse(raw) ==
    [s \in Stages |->
        IF s = "todo" THEN DecodeTasks(raw[2])
        ELSE IF s = "in_progress" THEN DecodeTasks(raw[3])
        ELSE DecodeTasks(raw[4])]

\* a snapshot left by an earlier session
OldSnapshot ==
    [s \in Stages |->
        IF s = "todo" THEN <<Task(1, <<"a">>, 0)>>
        ELSE IF s = "done" THEN <<Task(2, <<"a", " ", "b">>, 0)>>
        ELSE <<>>]

\* localStorage[STORAGE_KEY] when the page is opened
StoredAtStart == { <<>>, <<CorruptText>>, <<JSONstringify(OldSnapshot)>> }

\* the two seed tasks of initialData; their ids come from uid() at module load
initialDataLocal ==
    [s \in Stages |->
        IF s = "todo" THEN <<Task(3, <<"S">>, SessionStart), Task(4, <<"D">>, SessionStart)>>
        ELSE <<>>]

\* the save effect writes the data of the render before the change
SaveEffectResult_stale(b) == <<JSONstringify(board)>>

\* the save effect: localStorage.setItem(STORAGE_KEY, JSON.stringify(data))
SaveEffectResult(b) == <<JSONstringify(b)>>

----------------------------------------------------------------------------
(* Remote variant: the table "tasks" and the requests to it *)

\* the timestamp is sent with the precision of a second
ToISOString_seconds(ms) == [sec |-> ms \div 1000, msec |-> 0]

\* new Date(ms).toISOString() and Date.parse(iso)
ToISOString(ms) == [sec |-> ms \div 1000, msec |-> ms % 1000]
DateParse(iso) == iso.sec * 1000 + iso.msec

\* timestamptz order of two created_at values
IsoLeq(x, y) == x.sec < y.sec \/ (x.sec = y.sec /\ x.msec <= y.msec)

Row(id, title, status, created_at) ==
    [id |-> id, title |-> title, status |-> status, created_at |-> created_at]

\* rows left in the table by earlier sessions
OldRows == { Row(1, <<"a">>, "todo", ToISOString(0)),
             Row(2, <<"a", " ", "b">>, "done", ToISOString(0)) }

StoreAtStart == { {}, OldRows }

InsertWrite(task, col) ==
    [kind |-> "insert", id |-> task.id, title |-> task.title, status |-> col,
     created_at |-> <<ToISOString(task.createdAt)>>]
DeleteWrite(id) ==
    [kind |-> "delete", id |-> id, title |-> <<>>, status |-> "", created_at |-> <<>>]
UpdateWrite(id, to) ==
    [kind |-> "update", id |-> id, title |-> <<>>, status |-> to, created_at |-> <<>>]

\* some row of the table matches .eq("id", id)
Matches(rows, id) == \E r \in rows : r.id = id

\* the table after the write is executed; id is the primary key
ApplyWrite(rows, w) ==
    IF w.kind = "insert"
    THEN IF Matches(rows, w.id) THEN rows
         ELSE rows \cup {Row(w.id, w.title, w.status, w.created_at[1])}
    ELSE IF w.kind = "update"
    THEN { IF r.id = w.id THEN [r EXCEPT !.status = w.status] ELSE r : r \in rows }
    ELSE { r \in rows : r.id # w.id }

\* the write changes a row, so postgres_changes emits an event
EmitsEvent(rows, w) ==
    IF w.kind = "insert" THEN ~Matches(rows, w.id) ELSE Matches(rows, w.id)

\* .order("created_at", {ascending: false}): any order of the rows that is
\* descending in created_at; ties are in no particular order
SelectResults(rows) ==
    { q \in [1..Cardinality(rows) -> rows] :
        /\ \A j, k \in 1..Cardinality(rows) : j # k => q[j] # q[k]
        /\ \A j \in 1..(Cardinality(rows) - 1) : IsoLeq(q[j + 1].created_at, q[j].created_at) }

\* the loop of fetchTasks: group the rows by status, in the returned order
RowsOf(data, s) == SelectSeq(data, LAMBDA r : r.status = s)

\* a task the board shows stays in the stage the board shows it in
GroupByStatus_keepsLocalStage(data) ==
    [s \in Stages |->
        LET rows == SelectSeq(data, LAMBDA r :
                        IF r.id \in AllIds(board) THEN r.id \in IdsOf(board[s])
                        ELSE r.status = s)
        IN [k \in 1..Len(rows) |->
               Task(rows[k].id, rows[k].title, DateParse(rows[k].created_at))]]

\* next starts from the current board instead of three empty lists
GroupByStatus_mergesBoard(data) ==
    [s \in Stages |->
        LET rows == SelectSeq(data, LAMBDA r : r.status = s /\ r.id \notin AllIds(board))
        IN board[s] \o [k \in 1..Len(rows) |->
               Task(rows[k].id, rows[k].title, DateParse(rows[k].created_at))]]

GroupByStatus(data) ==
    [s \in Stages |->
        [k \in 1..Len(RowsOf(data, s)) |->
            Task(RowsOf(data, s)[k].id, RowsOf(data, s)[k].title,
                 DateParse(RowsOf(data, s)[k].created_at))]]

SentFetch == [st |-> "sent", data |-> <<>>]
Response(data) == [st |-> "response", data |-> data]

----------------------------------------------------------------------------
(* Inputs *)

\* the first id uid() hands out to addTask; smaller ids are those of the seed
\* tasks and of tasks of earlier sessions
FirstFreshId == 5

\* uid() still has an id to hand out within the bound
CanAdd == nextId < FirstFreshId + MaxAdds

\* ids of the seed tasks and of the tasks of earlier sessions
OldIds == [local |-> 1..4, remote |-> 1..2]

\* ids a caller can name: those of the tasks that exist or have existed
Ids == OldIds[variant] \cup (FirstFreshId..(nextId - 1)) \cup AllIds(board)

\* the text of a drag payload: JSON.stringify({taskId, from}) of onDragStart,
\* or any other text dropped on a column
PayloadTexts ==
    [wellFormed : {TRUE}, taskId : {<<>>} \cup { <<i>> : i \in Ids },
     from : {<<>>, <<"">>} \cup { <<f>> : f \in FromValues }]
    \cup [wellFormed : {FALSE}, taskId : {<<>>}, from : {<<>>}]

\* !payload?.taskId || !payload?.from
LacksFields(payload) ==
    \/ payload.taskId = <<>>
    \/ payload.from = <<>>
    \/ payload.from = <<"">>

----------------------------------------------------------------------------
(* Construction *)

Init ==
    /\ variant \in Variants
    /\ phase = "constructed"
    /\ board = IF variant = "local" THEN initialDataLocal ELSE initialDataRemote
    /\ now = SessionStart
    /\ nextId = FirstFreshId
    /\ gestures = 0
    /\ storage \in (IF variant = "local" THEN StoredAtStart ELSE {<<>>})
    /\ pendingData = <<>>
    /\ rawRead = <<>>
    /\ store \in (IF variant = "remote" THEN StoreAtStart ELSE {{}})
    /\ writes = EmptyBag
    /\ subscribed = FALSE
    /\ notifs = 0
    /\ fetches = EmptyBag
    /\ failedMove = <<>>
    /\ lost = FALSE
    /\ resetAt = <<>>
    /\ last = [op |-> "init", a |-> <<>>]

----------------------------------------------------------------------------
(* Local variant: the effects of useLocalBoard at activation *)

\* the load effect with no try/catch: a text that does not parse ends the render
LoadEffect_noCatch ==
    /\ variant = "local"
    /\ phase = "constructed"
    /\ rawRead' = storage
    /\ pendingData' = IF storage # <<>> /\ Parses(storage[1])
                      THEN <<JSONparse(storage[1])>>
                      ELSE <<>>
    /\ phase' = IF storage # <<>> /\ ~Parses(storage[1]) THEN "crashed" ELSE "loaded"
    /\ UNCHANGED <<variant, resetAt, board, now, nextId, gestures, storage>>
    /\ UNCHANGED remoteVars

\* the load effect: getItem, then setData(JSON.parse(raw)) unless it throws
LoadEffect ==
    /\ variant = "local"
    /\ phase = "constructed"
    /\ pendingData' = IF storage # <<>> /\ Parses(storage[1])
                      THEN <<JSONparse(storage[1])>>
                      ELSE <<>>
    /\ rawRead' = storage
    /\ phase' = "loaded"
    /\ UNCHANGED <<variant, resetAt, board, now, nextId, gestures, storage>>
    /\ UNCHANGED remoteVars

\* the save effect of the first render: it saves the data of that render
SaveEffect ==
    /\ variant = "local"
    /\ phase = "loaded"
    /\ storage' = SaveEffectResult(board)
    /\ phase' = IF pendingData = <<>> THEN "mounted" ELSE "saved"
    /\ UNCHANGED <<variant, resetAt, board, now, nextId, gestures, pendingData, rawRead>>
    /\ UNCHANGED remoteVars

\* the render that takes the loaded data, with a save effect that runs once
ApplyLoaded_noSave ==
    /\ variant = "local"
    /\ phase = "saved"
    /\ board' = pendingData[1]
    /\ pendingData' = <<>>
    /\ phase' = "mounted"
    /\ UNCHANGED <<variant, resetAt, now, nextId, gestures, rawRead, storage>>
    /\ UNCHANGED remoteVars

\* the render that takes the loaded data, and the save effect it triggers
ApplyLoaded ==
    /\ variant = "local"
    /\ phase = "saved"
    /\ board' = pendingData[1]
    /\ pendingData' = <<>>
    /\ storage' = SaveEffectResult(board')
    /\ phase' = "mounted"
    /\ UNCHANGED <<variant, resetAt, now, nextId, gestures, rawRead>>
    /\ UNCHANGED remoteVars

----------------------------------------------------------------------------
(* What follows a setBoard call in each variant *)

\* local: a render with new data reruns the save effect;
\* remote: the handler goes on to issue its write
Persist(rerender, w) ==
    IF variant = "local"
    THEN /\ storage' = IF rerender THEN SaveEffectResult(board') ELSE storage
         /\ UNCHANGED <<pendingData, rawRead>>
         /\ UNCHANGED remoteVars
    ELSE /\ BagCardinality(writes) < MaxWrites
         /\ writes' = writes (+) SetToBag({w})
         /\ UNCHANGED <<store, subscribed, notifs, fetches, failedMove, lost>>
         /\ UNCHANGED localVars

----------------------------------------------------------------------------
(* Board operations *)

\* the component is mounted; "resetting": it waits for the reset's delete
Active == {"mounted", "resetting"}

\* a user operation is being handled
Gesture == phase = "mounted" /\ gestures < MaxGestures /\ gestures' = gestures + 1

addTask(col, title) ==
    /\ Gesture
    /\ IF Trim(title) = <<>>
       THEN /\ UNCHANGED <<variant, resetAt, phase, board, now, nextId>>
            /\ UNCHANGED localVars
            /\ UNCHANGED remoteVars
       ELSE /\ CanAdd
            /\ \E t \in now..MaxClock :
                  LET task == Task(nextId, Trim(title), t) IN
                  /\ now' = t
                  /\ board' = addTaskUpdater(board, col, task)
                  /\ Persist(TRUE, InsertWrite(task, col))
            /\ nextId' = nextId + 1
            /\ UNCHANGED <<variant, resetAt, phase>>

removeTask(col, id) ==
    /\ Gesture
    /\ board' = removeTaskUpdater(board, col, id)
    /\ Persist(TRUE, DeleteWrite(id))
    /\ UNCHANGED <<variant, resetAt, phase, now, nextId>>

\* the updater returns prev itself when the task is not found: no render
MoveRerenders(from, id) == FindIndex(board[from], id) # -1

moveTask(from, to, id, index) ==
    /\ Gesture
    /\ board' = moveTaskUpdater(board, from, to, id, index)
    /\ Persist(MoveRerenders(from, id), UpdateWrite(id, to))
    /\ UNCHANGED <<variant, resetAt, phase, now, nextId>>

\* a drop with no try/catch around JSON.parse
onDropColumn_noCatch(payload, to) ==
    IF ~payload.wellFormed
    THEN /\ Gesture
         /\ phase' = "crashed"
         /\ UNCHANGED <<variant, resetAt, board, now, nextId>>
         /\ UNCHANGED localVars
         /\ UNCHANGED remoteVars
    ELSE IF LacksFields(payload)
    THEN /\ Gesture
         /\ UNCHANGED <<variant, resetAt, phase, board, now, nextId>>
         /\ UNCHANGED localVars
         /\ UNCHANGED remoteVars
    ELSE IF payload.from[1] \notin Stages
    THEN /\ Gesture
         /\ phase' = "crashed"
         /\ board' = board
         /\ Persist(FALSE, UpdateWrite(payload.taskId[1], to))
         /\ UNCHANGED <<variant, resetAt, now, nextId>>
    ELSE moveTask(payload.from[1], to, payload.taskId[1], <<>>)

\* a drop: parse the payload, ignore it if it is malformed, else move with no
\* index; a from that is no stage makes the updater throw during the render
onDropColumn(payload, to) ==
    IF ~payload.wellFormed \/ LacksFields(payload)
    THEN /\ Gesture
         /\ UNCHANGED <<variant, resetAt, phase, board, now, nextId>>
         /\ UNCHANGED localVars
         /\ UNCHANGED remoteVars
    ELSE IF payload.from[1] \notin Stages
    THEN /\ Gesture
         /\ phase' = "crashed"
         /\ board' = board
         /\ Persist(FALSE, UpdateWrite(payload.taskId[1], to))
         /\ UNCHANGED <<variant, resetAt, now, nextId>>
    ELSE moveTask(payload.from[1], to, payload.taskId[1], <<>>)

----------------------------------------------------------------------------
(* Remote variant: the mount effect, the store and the refetches *)

\* the effect at activation: fetchTasks() and the request to join the channel
MountEffect ==
    /\ variant = "remote"
    /\ phase = "constructed"
    /\ phase' = "mounted"
    /\ fetches' = fetches (+) SetToBag({SentFetch})
    /\ UNCHANGED <<variant, resetAt, board, now, nextId, gestures, store, writes, subscribed, notifs, failedMove, lost>>
    /\ UNCHANGED localVars

\* the channel has joined: change events are delivered from now on
ChannelJoined ==
    /\ variant = "remote"
    /\ phase \in Active
    /\ ~subscribed
    /\ subscribed' = TRUE
    /\ UNCHANGED <<variant, resetAt, phase, board, now, nextId, gestures, store, writes, notifs, fetches, failedMove, lost>>
    /\ UNCHANGED localVars

\* the store executes a write that reached it
StoreApplies(w) ==
    /\ BagIn(w, writes)
    /\ writes' = writes (-) SetToBag({w})
    /\ store' = ApplyWrite(store, w)
    /\ IF subscribed /\ EmitsEvent(store, w)
       THEN notifs < MaxNotifs /\ notifs' = notifs + 1
       ELSE notifs' = notifs
    /\ lost' = (lost \/ (~subscribed /\ EmitsEvent(store, w)))
    /\ UNCHANGED <<variant, resetAt, phase, board, now, nextId, gestures, subscribed, fetches, failedMove>>
    /\ UNCHANGED localVars

\* a write is lost; the handler awaits it and ignores the result
WriteFails(w) ==
    /\ BagIn(w, writes)
    /\ writes' = writes (-) SetToBag({w})
    /\ failedMove' = IF w.kind = "update" THEN <<w>> ELSE failedMove
    /\ lost' = TRUE
    /\ UNCHANGED <<variant, resetAt, phase, board, now, nextId, gestures, store, subscribed, notifs, fetches>>
    /\ UNCHANGED localVars

\* the channel callback: () => fetchTasks()
OnChange ==
    /\ phase \in Active
    /\ notifs > 0
    /\ BagCardinality(fetches) < MaxFetches
    /\ notifs' = notifs - 1
    /\ fetches' = fetches (+) SetToBag({SentFetch})
    /\ UNCHANGED <<variant, resetAt, phase, board, now, nextId, gestures, store, writes, subscribed, failedMove, lost>>
    /\ UNCHANGED localVars

\* the store answers a select with its rows at that moment
StoreSelects(data) ==
    /\ BagIn(SentFetch, fetches)
    /\ data \in SelectResults(store)
    /\ fetches' = (fetches (-) SetToBag({SentFetch})) (+) SetToBag({Response(<<data>>)})
    /\ UNCHANGED <<variant, resetAt, phase, board, now, nextId, gestures, store, writes, subscribed, notifs, failedMove, lost>>
    /\ UNCHANGED localVars

\* the select fails: the client gets { data: null } and fetchTasks returns
SelectFails ==
    /\ BagIn(SentFetch, fetches)
    /\ fetches' = fetches (-) SetToBag({SentFetch})
    /\ lost' = TRUE
    /\ UNCHANGED <<variant, resetAt, phase, board, now, nextId, gestures, store, writes, subscribed, notifs, failedMove>>
    /\ UNCHANGED localVars

\* the update is applied whether or not the component is still mounted
SetBoard_detached(next) == next

\* setBoard(next) after an await: React drops the update of a component that
\* is no longer mounted
SetBoard(next) == IF phase \in Active THEN next ELSE board

\* the continuation of fetchTasks after the await, with data; nothing in it
\* asks whether the component is still mounted
fetchTasks(r) ==
    /\ phase \in Active \cup {"unmounted"}
    /\ BagIn(r, fetches)
    /\ r.st = "response"
    /\ fetches' = fetches (-) SetToBag({r})
    /\ board' = SetBoard(GroupByStatus(r.data[1]))
    /\ failedMove' = <<>>
    /\ UNCHANGED <<variant, resetAt, phase, now, nextId, gestures, store, writes, subscribed, notifs, lost>>
    /\ UNCHANGED localVars

\* the cleanup of the effect, run when the component is unmounted: the channel
\* is removed; requests in flight are not cancelled
Unmount ==
    /\ variant = "remote"
    /\ phase \in Active
    /\ phase' = "unmounted"
    /\ subscribed' = FALSE
    /\ notifs' = 0
    /\ UNCHANGED <<variant, resetAt, board, now, nextId, gestures, store, writes, fetches, failedMove, lost>>
    /\ UNCHANGED localVars

----------------------------------------------------------------------------
(* The reset link *)

\* location.reload(): a new page starts from the initial data; what the old
\* page was waiting for is dropped, what it had sent to the store is not
Reload(cleared) ==
    /\ phase' = "constructed"
    /\ board' = IF variant = "local" THEN initialDataLocal ELSE initialDataRemote
    /\ pendingData' = <<>>
    /\ rawRead' = <<>>
    /\ subscribed' = FALSE
    /\ notifs' = 0
    /\ fetches' = EmptyBag
    /\ failedMove' = <<>>
    /\ lost' = FALSE
    /\ resetAt' = IF cleared THEN <<nextId>> ELSE resetAt

\* the onClick of the reset link. local: removeItem, then reload;
\* remote: the delete of every row is sent and awaited
reset ==
    /\ Gesture
    /\ IF variant = "local"
       THEN /\ storage' = <<>>
            /\ Reload(TRUE)
            /\ UNCHANGED <<variant, now, nextId, store, writes>>
       ELSE /\ phase' = "resetting"
            /\ UNCHANGED <<variant, resetAt, board, now, nextId>>
            /\ UNCHANGED localVars
            /\ UNCHANGED remoteVars

\* remote: the store executes delete().neq("id", ""), the handler resumes
\* after its await and reloads the page
StoreDeletesAll ==
    /\ phase = "resetting"
    /\ store' = {}
    /\ Reload(TRUE)
    /\ UNCHANGED <<variant, now, nextId, gestures, storage, writes>>

\* remote: the delete is lost; the handler ignores the result of its await
\* and reloads the page all the same
ResetFails ==
    /\ phase = "resetting"
    /\ Reload(FALSE)
    /\ UNCHANGED <<variant, now, nextId, gestures, storage, store, writes>>

----------------------------------------------------------------------------
(* The component *)

\* the history variable: which operation ran, and the data a refetch applied
Did(op, args) == last' = [op |-> op, a |-> args]

Next ==
    \/ LoadEffect /\ Did("load", <<>>)
    \/ SaveEffect /\ Did("save", <<>>)
    \/ ApplyLoaded /\ Did("applyLoaded", <<>>)
    \/ MountEffect /\ Did("mount", <<>>)
    \/ ChannelJoined /\ Did("joined", <<>>)
    \/ \E col \in Stages, title \in RawTitles : addTask(col, title) /\ Did("add", <<>>)
    \/ \E col \in Stages : \E id \in IdsOf(board[col]) :
          removeTask(col, id) /\ Did("remove", <<>>)
    \/ \E payload \in PayloadTexts, to \in Stages :
          onDropColumn(payload, to) /\ Did("drop", <<>>)
    \/ \E w \in BagToSet(writes) : StoreApplies(w) /\ Did("storeApplies", <<>>)
    \/ \E w \in BagToSet(writes) : WriteFails(w) /\ Did("writeFails", <<>>)
    \/ OnChange /\ Did("onChange", <<>>)
    \/ \E data \in SelectResults(store) : StoreSelects(data) /\ Did("storeSelects", <<>>)
    \/ SelectFails /\ Did("selectFails", <<>>)
    \/ Unmount /\ Did("unmount", <<>>)
    \/ reset /\ Did("reset", <<>>)
    \/ StoreDeletesAll /\ Did("storeDeletesAll", <<>>)
    \/ ResetFails /\ Did("resetFails", <<>>)
    \/ \E r \in BagToSet(fetches) :
          fetchTasks(r) /\ Did("fetchTasks", <<r.data[1], failedMove, board>>)

Spec == Init /\ [][Next]_vars

----------------------------------------------------------------------------
(* The board operations on their own: each operation of the component,
   called with every argument of a small range on every small board, with
   its arguments recorded *)

SampleTasks == { Task(1, <<"a">>, 0), Task(2, <<"a", " ", "b">>, 0), Task(3, <<"S">>, SessionStart) }

\* the lists of distinct sample tasks
SampleLists ==
    { q \in UNION { [1..n -> SampleTasks] : n \in 0..Cardinality(SampleTasks) } :
        \A j, k \in 1..Len(q) : j # k => q[j] # q[k] }

\* every arrangement of some of the sample tasks over the three stages
SmallBoards == { b \in [Stages -> SampleLists] : NoDuplicateIds(b) }

\* the rows of a store that agrees with the board
RowsOfBoard(b) ==
    UNION { { Row(b[s][k].id, b[s][k].title, s, ToISOString(b[s][k].createdAt)) :
                k \in 1..Len(b[s]) } : s \in Stages }

\* a mounted component showing a small board, its persistence in step with it
InitOps ==
    /\ variant \in Variants
    /\ phase = "mounted"
    /\ board \in SmallBoards
    /\ now = SessionStart
    /\ nextId = FirstFreshId
    /\ gestures = 0
    /\ storage = IF variant = "local" THEN SaveEffectResult(board) ELSE <<>>
    /\ pendingData = <<>>
    /\ rawRead = <<>>
    /\ store = IF variant = "remote" THEN RowsOfBoard(board) ELSE {}
    /\ writes = EmptyBag
    /\ subscribed = (variant = "remote")
    /\ notifs = 0
    /\ fetches = EmptyBag
    /\ failedMove = <<>>
    /\ lost = FALSE
    /\ resetAt = <<>>
    /\ last = [op |-> "init", a |-> <<>>]

\* ids an operation can be called with: the known ones and one of no task
OpIds == Ids \cup {FirstFreshId - 1}

NextOps ==
    \/ /\ gestures < MaxOps
       /\ \/ \E col \in Stages, title \in RawTitles :
                addTask(col, title) /\ Did("add", <<col, title>>)
          \/ \E col \in Stages, id \in OpIds :
                removeTask(col, id) /\ Did("remove", <<col, id>>)
          \/ \E from \in Stages, to \in Stages, id \in OpIds, index \in Indexes :
                moveTask(from, to, id, index) /\ Did("move", <<from, to, id, index>>)
          \/ \E payload \in PayloadTexts, to \in Stages :
                onDropColumn(payload, to) /\ Did("drop", <<payload, to>>)
    \* the store executes the write of the operation; its arguments stay recorded
    \/ \E w \in BagToSet(writes) : StoreApplies(w) /\ Did("storeApplies", <<last>>)

SpecOps == InitOps /\ [][NextOps]_vars

----------------------------------------------------------------------------
(* Properties *)

\* C1: no task id appears in two stages or twice in one stage of the board,
\* after any sequence of add, remove, drop and refetch
C1_NoDuplicateIds == NoDuplicateIds(board)

\* a refetch applied after two user operations, with three tasks on the board
C1_Witness ==
    /\ variant = "remote"
    /\ last.op = "fetchTasks"
    /\ gestures = 2
    /\ Total(board) = 3

\* C2: a move, whatever its stages, id and index, leaves the number of tasks
\* across the three stages as it was
C2_MovePreservesTotal ==
    [][last'.op = "move" => Total(board') = Total(board)]_vars

\* a task moved to another stage at an explicit index, three tasks on the board
C2_Witness ==
    /\ last.op = "move"
    /\ last.a[1] # last.a[2]
    /\ Len(last.a[4]) = 1
    /\ last.a[3] \in IdsOf(board[last.a[2]])
    /\ Total(board) = 3

\* C3: a move of an id that is not in the from stage leaves every stage as it
\* was and raises no error
C3_MoveAbsentIsNoOp ==
    [][(last'.op = "move" /\ last'.a[3] \notin IdsOf(board[last'.a[1]]))
          => (board' = board /\ phase' = "mounted")]_vars

\* the id moved is on the board, in a stage other than from, and from has tasks
C3_Witness ==
    /\ last.op = "move"
    /\ last.a[3] \notin IdsOf(board[last.a[1]])
    /\ last.a[3] \in AllIds(board)
    /\ board[last.a[1]] # <<>>

\* C4: an add whose title is empty or all whitespace leaves the board as it
\* was, creates no task and issues no write
C4_BlankAddIsNoOp ==
    [][(last'.op = "add" /\ \A k \in 1..Len(last'.a[2]) : IsWhiteSpace(last'.a[2][k]))
          => /\ board' = board
             /\ nextId' = nextId
             /\ writes' = writes
             /\ store' = store
             /\ storage' = storage]_vars

\* a title of whitespace only was submitted in the remote variant
C4_Witness ==
    /\ variant = "remote"
    /\ last.op = "add"
    /\ last.a[2] # <<>>
    /\ \A k \in 1..Len(last.a[2]) : IsWhiteSpace(last.a[2][k])
    /\ Total(board) > 0

\* C5: a move within one stage to an index keeps the ids of the list, puts the
\* moved task at the index clamped to the list, keeps the order of the other
\* tasks and leaves the two other stages as they were
C5_SameStageReorder ==
    [][(/\ last'.op = "move"
        /\ last'.a[1] = last'.a[2]
        /\ Len(last'.a[4]) = 1
        /\ last'.a[3] \in IdsOf(board[last'.a[1]]))
          => LET s     == last'.a[1]
                 id    == last'.a[3]
                 index == last'.a[4][1]
                 n     == Len(board[s])
                 at    == IF index < 0 THEN 0 ELSE IF index > n - 1 THEN n - 1 ELSE index
             IN /\ Len(board'[s]) = n
                /\ IdsOf(board'[s]) = IdsOf(board[s])
                /\ board'[s][at + 1].id = id
                /\ SelectSeq(board'[s], LAMBDA t : t.id # id)
                     = SelectSeq(board[s], LAMBDA t : t.id # id)
                /\ \A o \in Stages \ {s} : board'[o] = board[o]]_vars

\* the first of three tasks was moved to an index past the end of its list
C5_Witness ==
    /\ last.op = "move"
    /\ last.a[1] = last.a[2]
    /\ last.a[4] = <<MaxIndex>>
    /\ Len(board[last.a[1]]) = 3
    /\ board[last.a[1]][3].id = last.a[3]
    /\ board[last.a[1]][3].id = 1
    /\ board[last.a[1]][1].id = 2

\* the stages and the id of a move with no index: a moveTask call or a drop
MovedNoIndex(l, from, to, id) ==
    \/ l.op = "move" /\ l.a[1] = from /\ l.a[2] = to /\ l.a[3] = id /\ l.a[4] = <<>>
    \/ /\ l.op = "drop"
       /\ l.a[1].wellFormed
       /\ l.a[1].from = <<from>>
       /\ l.a[1].taskId = <<id>>
       /\ l.a[2] = to

\* C6: a move with no index between two distinct stages takes the task out of
\* from, puts it last in to, keeps the order of the other tasks and leaves the
\* third stage as it was
C6_MoveAppends ==
    [][\A from \in Stages : \A to \in Stages \ {from} : \A id \in IdsOf(board[from]) :
          MovedNoIndex(last', from, to, id)
             => LET i == CHOOSE k \in 1..Len(board[from]) : board[from][k].id = id IN
                /\ board'[from] = SelectSeq(board[from], LAMBDA t : t.id # id)
                /\ board'[to] = Append(board[to], board[from][i])
                /\ \A o \in Stages \ {from, to} : board'[o] = board[o]]_vars

\* todo=[A,B], in_progress=[C] became todo=[B], in_progress=[C,A] by a drop
C6_Witness ==
    /\ last.op = "drop"
    /\ last.a[1].taskId = <<1>>
    /\ last.a[1].from = <<"todo">>
    /\ last.a[2] = "in_progress"
    /\ Len(board["todo"]) = 1 /\ board["todo"][1].id = 2
    /\ Len(board["in_progress"]) = 2 /\ board["in_progress"][2].id = 1
    /\ board["done"] = <<>>

\* C7: an add with a title that is not blank puts one new task, with a fresh
\* id and the trimmed title, before the previous list of the stage, and leaves
\* the two other stages as they were
C7_AddPrepends ==
    [][(last'.op = "add" /\ \E k \in 1..Len(last'.a[2]) : ~IsWhiteSpace(last'.a[2][k]))
          => LET col   == last'.a[1]
                 raw   == last'.a[2]
                 first == CHOOSE k \in 1..Len(raw) :
                             ~IsWhiteSpace(raw[k]) /\ \A j \in 1..(k - 1) : IsWhiteSpace(raw[j])
                 lastk == CHOOSE k \in 1..Len(raw) :
                             ~IsWhiteSpace(raw[k]) /\ \A j \in (k + 1)..Len(raw) : IsWhiteSpace(raw[j])
             IN /\ Len(board'[col]) = Len(board[col]) + 1
                /\ Tail(board'[col]) = board[col]
                /\ Head(board'[col]).title = SubSeq(raw, first, lastk)
                /\ Head(board'[col]).id \notin AllIds(board)
                /\ \A o \in Stages \ {col} : board'[o] = board[o]]_vars

\* a title with blanks around it was added to a stage that had two tasks
C7_Witness ==
    /\ last.op = "add"
    /\ last.a[2] # <<>>
    /\ IsWhiteSpace(Head(last.a[2]))
    /\ Len(board[last.a[1]]) = 3
    /\ Head(board[last.a[1]]).title = <<"a", " ", "b">>
    /\ Head(board[last.a[1]]).id = FirstFreshId

\* C8: removing the task an add has just created gives back the board of
\* before the add, and a remove of an id that is not in the stage leaves the
\* board as it was
C8_AddThenRemove ==
    [][/\ (last'.op = "add" /\ board' # board)
            => removeTaskUpdater(board', last'.a[1], Head(board'[last'.a[1]]).id) = board
       /\ (last'.op = "remove" /\ last'.a[2] \notin IdsOf(board[last'.a[1]]))
            => board' = board]_vars

\* a task was added to a stage that had tasks
C8_Witness ==
    /\ last.op = "add"
    /\ nextId = FirstFreshId + 1
    /\ Len(board[last.a[1]]) >= 2

C10_RefetchReplaces ==
    (last.op = "fetchTasks" /\ phase \in Active) =>
        LET data == last.a[1] IN
        /\ \A s \in Stages :
              LET rows == SelectSeq(data, LAMBDA r : r.status = s) IN
              /\ Len(board[s]) = Len(rows)
              /\ \A k \in 1..Len(rows) :
                    /\ board[s][k].id = rows[k].id
                    /\ board[s][k].title = rows[k].title
                    /\ ToISOString(board[s][k].createdAt) = rows[k].created_at
              /\ \A k \in 1..(Len(rows) - 1) : board[s][k].createdAt >= board[s][k + 1].createdAt
        /\ AllIds(board) = { data[k].id : k \in 1..Len(data) }

\* a refetch dropped a task the board showed and listed a newer task first
C10_Witness ==
    /\ last.op = "fetchTasks"
    /\ AllIds(last.a[3]) \ AllIds(board) # {}
    /\ \E s \in Stages :
          /\ Len(board[s]) >= 2
          /\ board[s][1].createdAt > board[s][2].createdAt

\* C11: in the local variant, when the stored snapshot is absent or does not
\* parse at activation, loading raises no error and leaves the board in the
\* seed state: the two seed tasks in todo, in_progress and done empty
C11_SeedOnBadSnapshot ==
    (/\ variant = "local"
     /\ last.op \in {"load", "save"}
     /\ (rawRead = <<>> \/ ~Parses(rawRead[1])))
        => /\ phase \in {"loaded", "mounted"}
           /\ pendingData = <<>>
           /\ board = initialDataLocal
           /\ Len(board["todo"]) = 2
           /\ board["in_progress"] = <<>>
           /\ board["done"] = <<>>

\* activation found a text that does not parse and ended with the seed saved
C11_Witness ==
    /\ variant = "local"
    /\ last.op = "save"
    /\ rawRead = <<CorruptText>>
    /\ phase = "mounted"
    /\ storage = <<JSONstringify(initialDataLocal)>>

\* C12: in the local variant, once the save step that follows a change has
\* run, the stored snapshot is the serialized board and parses back to the
\* board, stage by stage
C12_SnapshotFollowsBoard ==
    (variant = "local" /\ phase = "mounted")
        => /\ storage = <<JSONstringify(board)>>
           /\ \A s \in Stages : JSONparse(storage[1])[s] = board[s]

\* an add and then a drop of the new task to another stage, both saved
C12_Witness ==
    /\ variant = "local"
    /\ last.op = "drop"
    /\ gestures = 2
    /\ nextId = FirstFreshId + 1
    /\ FirstFreshId \in IdsOf(board["done"])
    /\ FirstFreshId \in IdsOf(JSONparse(storage[1])["done"])

\* C13: in both variants a drop whose payload does not parse, or parses but
\* has no taskId or no from, is ignored: the board is as it was, no write is
\* issued to the store or to the storage, and no error is raised
C13_MalformedDropIgnored ==
    [][(/\ last'.op = "drop"
        /\ \/ ~last'.a[1].wellFormed
           \/ last'.a[1].taskId = <<>>
           \/ last'.a[1].from \in {<<>>, <<"">>})
          => /\ board' = board
             /\ writes' = writes
             /\ store' = store
             /\ storage' = storage
             /\ phase' = "mounted"]_vars

\* a payload that does not parse was dropped on a board of three tasks
C13_Witness ==
    /\ last.op = "drop"
    /\ ~last.a[1].wellFormed
    /\ variant = "remote"
    /\ Total(board) = 3

\* the tasks made before the page was reloaded by a reset that cleared the
\* persisted tasks; the seed tasks of the local variant are made by the reload
MadeBeforeReset(id) ==
    /\ resetAt # <<>>
    /\ id < resetAt[1]
    /\ ~(variant = "local" /\ id \in AllIds(initialDataLocal))

\* C14: once a reset has cleared the persisted tasks and reloaded the page, no
\* task made before the reset is in the store, in the storage or on the board,
\* and the reloaded page starts from the seed state (local) or from three
\* empty stages (remote), also when writes were in flight at the reset
C14_ResetClears ==
    resetAt # <<>> =>
        /\ \A r \in store : ~MadeBeforeReset(r.id)
        /\ \A id \in AllIds(board) : ~MadeBeforeReset(id)
        /\ (storage # <<>> /\ Parses(storage[1]))
              => \A id \in AllIds(JSONparse(storage[1])) : ~MadeBeforeReset(id)
        /\ last.op \in {"reset", "storeDeletesAll"}
              => board = IF variant = "local" THEN initialDataLocal ELSE initialDataRemote

\* the part of C14 that holds: the local variant, whose reset waits for nothing
C14_LocalResetClears == variant = "local" => C14_ResetClears

\* a local board that showed a task of an earlier session and a new task was
\* reset, reloaded and saved again
C14_LocalWitness ==
    /\ variant = "local"
    /\ resetAt = <<FirstFreshId + 1>>
    /\ rawRead = <<>>
    /\ last.op = "save"
    /\ phase = "mounted"
    /\ storage = <<JSONstringify(initialDataLocal)>>

BoardMatchesStore ==
    \A s \in Stages : IdsOf(board[s]) = { r.id : r \in { x \in store : x.status = s } }

\* no write, no change event and no refetch is on its way
Quiescent == writes = EmptyBag /\ notifs = 0 /\ fetches = EmptyBag

\* C16: in the remote variant, when no write, refetch or change event was
\* lost, a refetch has just been applied, every write has been executed by the
\* store, every change event handled and every refetch resolved, each stage of
\* the board lists exactly the tasks the store records with that status
C16_LastRefetchWins ==
    (variant = "remote" /\ phase = "mounted" /\ last.op = "fetchTasks" /\ Quiescent /\ ~lost)
        => BoardMatchesStore

\* the operation recorded in l was a move or a drop of id from the stage from,
\* with or without an index
MovedFrom(l, from, id) ==
    \/ l.op = "move" /\ l.a[1] = from /\ l.a[3] = id
    \/ /\ l.op = "drop"
       /\ l.a[1].wellFormed
       /\ l.a[1].from = <<from>>
       /\ l.a[1].taskId = <<id>>

\* C17: in the remote variant a move or a drop of an id that is not in the
\* from stage of the board changes no row of the store: when the store has
\* executed what the operation sent, the table is as it was
C17_StaleMoveLeavesStore ==
    [][(/\ variant = "remote"
        /\ last'.op = "storeApplies"
        /\ \E from \in Stages : \E id \in OpIds :
              MovedFrom(last, from, id) /\ id \notin IdsOf(board[from]))
          => store' = store]_vars

\* C18: a drop whose payload parses and has a taskId and a from, the from
\* being none of the three stages, leaves the board as it was and the
\* component mounted
C18_UnknownFromIgnored ==
    [][(/\ last'.op = "drop"
        /\ last'.a[1].wellFormed
        /\ last'.a[1].taskId # <<>>
        /\ last'.a[1].from \notin {<<>>, <<"">>}
        /\ last'.a[1].from[1] \notin Stages)
          => (board' = board /\ phase' = "mounted")]_vars

\* the task with this id on the board b
TaskOn(b, id) ==
    LET s == CHOOSE x \in Stages : id \in IdsOf(b[x])
        k == CHOOSE j \in 1..Len(b[s]) : b[s][j].id = id
    IN b[s][k]

\* C19: in both variants no step changes the id, title or createdAt of a task:
\* a task on the board before and after a step is the same record, a row of
\* the store keeps its title and created_at, and a task on the board has the
\* title and the creation time of its row, also after insert and refetch
C19_TaskFieldsImmutable ==
    [][/\ \A id \in AllIds(board) \cap AllIds(board') :
             TaskOn(board', id) = TaskOn(board, id)
       /\ \A r \in store : \A r2 \in store' :
             r.id = r2.id => (r2.title = r.title /\ r2.created_at = r.created_at)
       /\ \A id \in AllIds(board') : \A r \in store' :
             r.id = id => /\ TaskOn(board', id).title = r.title
                          /\ TaskOn(board', id).createdAt = DateParse(r.created_at)]_vars

\* a task added at time MaxClock and dropped on another stage was on the board
\* before and after a refetch that read it back from the store
C19_Witness ==
    /\ variant = "remote"
    /\ last.op = "fetchTasks"
    /\ phase = "mounted"
    /\ gestures = 2
    /\ FirstFreshId \in AllIds(last.a[3])
    /\ FirstFreshId \in IdsOf(board["done"])
    /\ TaskOn(board, FirstFreshId) = Task(FirstFreshId, <<"a", " ", "b">>, MaxClock)
    /\ \E r \in store : r.id = FirstFreshId /\ r.status = "done"

\* C20: in the local variant, when the load effect read a snapshot that
\* parses, the save effect of the first render leaves the loaded data queued,
\* and the render that follows ends with the board equal to the snapshot and
\* the storage holding the snapshot again
C20_SnapshotSurvivesStartup ==
    (variant = "local" /\ rawRead # <<>> /\ Parses(rawRead[1]))
        => /\ phase \in {"loaded", "saved"} => pendingData = <<JSONparse(rawRead[1])>>
           /\ last.op = "save" => phase = "saved"
           /\ last.op = "applyLoaded"
                 => /\ phase = "mounted"
                    /\ board = JSONparse(rawRead[1])
                    /\ storage = rawRead

\* the snapshot of an earlier session is on the board and in the storage
C20_Witness ==
    /\ variant = "local"
    /\ last.op = "applyLoaded"
    /\ rawRead = <<JSONstringify(OldSnapshot)>>
    /\ board = OldSnapshot
    /\ storage = <<JSONstringify(OldSnapshot)>>

====
